---- MODULE Spec2Model ----
(***************************************************************************)
(* Model of the stanza tokenizer (package tokenize): the four split        *)
(* functions, the trim functions, the multiline builder and the splitter   *)
(* config, together with the stream reader that drives a split function.   *)
(*                                                                         *)
(* A byte is a one-character string ("NUL" stands for the zero byte), a    *)
(* []byte is a sequence of bytes.  A Go slice that may be nil is a record  *)
(* [isNil, bytes].  Buffers handed to a split function are non-nil slices, *)
(* as the buffers of bufio.Scanner are.                                    *)
(***************************************************************************)
EXTENDS Integers, Sequences, FiniteSets, TLC

VARIABLES cfg, split, data, atEOF, ret, stream, rd

vars == <<cfg, split, data, atEOF, ret, stream, rd>>

(***************************************************************************)
(* Bounds of the model.                                                    *)
(***************************************************************************)
MaxLen == 3
MaxLogSize == 2
MaxStreamLen == 3
MaxChunk == 2

Alphabet == {"\n", "\r", " ", "x", "NUL"}

RECURSIVE SeqsUpTo(_, _)
SeqsUpTo(S, n) ==
  IF n = 0 THEN {<<>>}
  ELSE LET shorter == SeqsUpTo(S, n - 1)
       IN  shorter \cup {Append(s, c) : s \in shorter, c \in S}

Min(a, b) == IF a < b THEN a ELSE b

(***************************************************************************)
(* Go slices: nil and non-nil.                                             *)
(***************************************************************************)
NilTok == [isNil |-> TRUE, bytes |-> <<>>]
Tok(s) == [isNil |-> FALSE, bytes |-> s]

Drop(s, n) == SubSeq(s, n + 1, Len(s))
Take(s, n) == SubSeq(s, 1, n)

(***************************************************************************)
(* bytes.TrimLeft / bytes.TrimRight with the cutset "\r\n\t ".             *)
(***************************************************************************)
Cutset == {"\r", "\n", "\t", " "}

RECURSIVE LeadingRun(_)
LeadingRun(s) ==
  IF s # <<>> /\ s[1] \in Cutset THEN 1 + LeadingRun(Drop(s, 1)) ELSE 0

RECURSIVE TrailingRun(_)
TrailingRun(s) ==
  IF s # <<>> /\ s[Len(s)] \in Cutset THEN 1 + TrailingRun(Take(s, Len(s) - 1)) ELSE 0

\* bytes.TrimLeft returns nil when nothing is left
BytesTrimLeft(s) ==
  LET r == Drop(s, LeadingRun(s))
  IN  IF r = <<>> THEN NilTok ELSE Tok(r)

\* bytes.TrimRight returns an empty argument as it is, else a (possibly empty)
\* prefix of it: never nil for a non-nil argument
BytesTrimRight(s) ==
  IF s = <<>> THEN Tok(s) ELSE Tok(Take(s, Len(s) - TrailingRun(s)))

noTrim(token) == Tok(token)

\* trimLeadingWhitespacesFunc removing one white-space byte instead of the run
trimLeadingWhitespacesFuncOnce(d) ==
  IF d # <<>> /\ d[1] \in Cutset THEN Tok(Drop(d, 1)) ELSE Tok(d)

trimLeadingWhitespacesFunc(d) ==
  LET token == BytesTrimLeft(d)
  IN  IF token.isNil THEN Tok(<<>>) ELSE token

trimTrailingWhitespacesFunc(d) ==
  LET token == BytesTrimRight(d)
  IN  IF token.isNil THEN Tok(<<>>) ELSE token

trimWhitespacesFunc(d) ==
  trimLeadingWhitespacesFunc(trimTrailingWhitespacesFunc(d).bytes)

\* getTrimFunc with the two one-sided trim functions exchanged
getTrimFuncExchanged(preserveLeadingWhitespaces, preserveTrailingWhitespaces) ==
  IF preserveLeadingWhitespaces /\ preserveTrailingWhitespaces THEN "noTrim"
  ELSE IF preserveLeadingWhitespaces THEN "trimLeadingWhitespacesFunc"
  ELSE IF preserveTrailingWhitespaces THEN "trimTrailingWhitespacesFunc"
  ELSE "trimWhitespacesFunc"

\* a trimFunc value is the name of the function; ApplyTrim calls it
getTrimFunc(preserveLeadingWhitespaces, preserveTrailingWhitespaces) ==
  IF preserveLeadingWhitespaces /\ preserveTrailingWhitespaces THEN "noTrim"
  ELSE IF preserveLeadingWhitespaces THEN "trimTrailingWhitespacesFunc"
  ELSE IF preserveTrailingWhitespaces THEN "trimLeadingWhitespacesFunc"
  ELSE "trimWhitespacesFunc"

ApplyTrim(trimFunc, d) ==
  CASE trimFunc = "noTrim" -> noTrim(d)
    [] trimFunc = "trimTrailingWhitespacesFunc" -> trimTrailingWhitespacesFunc(d)
    [] trimFunc = "trimLeadingWhitespacesFunc" -> trimLeadingWhitespacesFunc(d)
    [] OTHER -> trimWhitespacesFunc(d)

(***************************************************************************)
(* regexp: the fragment  c  c*  ^  $  of RE2 syntax, compiled with (?m).   *)
(* A pattern source is a sequence of characters; <<>> is the unset "".     *)
(***************************************************************************)
Atom(op, c) == [op |-> op, c |-> c]

\* regexp.Compile("(?m)" + src): [ok, prog]
RECURSIVE Compile(_)
Compile(src) ==
  IF src = <<>> THEN [ok |-> TRUE, prog |-> <<>>]
  ELSE IF src[1] \in {"(", ")", "*"} THEN [ok |-> FALSE, prog |-> <<>>]
  ELSE LET star == Len(src) >= 2 /\ src[2] = "*" /\ src[1] \notin {"^", "$"}
           atom == IF star THEN Atom("star", src[1])
                   ELSE IF src[1] = "^" THEN Atom("bol", "")
                   ELSE IF src[1] = "$" THEN Atom("eol", "")
                   ELSE Atom("lit", src[1])
           rest == Compile(Drop(src, IF star THEN 2 ELSE 1))
       IN  IF rest.ok THEN [ok |-> TRUE, prog |-> <<atom>> \o rest.prog]
           ELSE rest

RECURSIVE RunOf(_, _, _)
RunOf(d, i, c) ==
  IF i < Len(d) /\ d[i + 1] = c THEN 1 + RunOf(d, i + 1, c) ELSE 0

\* end offset of the preferred match of prog[k..] at offset i, or -1
RECURSIVE MatchFrom(_, _, _, _)
RECURSIVE StarFrom(_, _, _, _, _)
MatchFrom(prog, d, k, i) ==
  IF k > Len(prog) THEN i
  ELSE LET a == prog[k]
       IN  CASE a.op = "lit" ->
                  IF i < Len(d) /\ d[i + 1] = a.c
                  THEN MatchFrom(prog, d, k + 1, i + 1) ELSE -1
             [] a.op = "bol" ->
                  IF i = 0 \/ d[i] = "\n"
                  THEN MatchFrom(prog, d, k + 1, i) ELSE -1
             [] a.op = "eol" ->
                  IF i = Len(d) \/ d[i + 1] = "\n"
                  THEN MatchFrom(prog, d, k + 1, i) ELSE -1
             [] OTHER -> StarFrom(prog, d, k, i, RunOf(d, i, a.c))

\* greedy repetition: the longest run first, then shorter ones
StarFrom(prog, d, k, i, n) ==
  LET r == MatchFrom(prog, d, k + 1, i + n)
  IN  IF r # -1 THEN r
      ELSE IF n = 0 THEN -1
      ELSE StarFrom(prog, d, k, i, n - 1)

NoLoc == [found |-> FALSE, lo |-> 0, hi |-> 0]

\* re.FindIndex(d): the leftmost match, nil when there is none
FindIndex(prog, d) ==
  LET starts == {i \in 0..Len(d) : MatchFrom(prog, d, 1, i) # -1}
  IN  IF starts = {} THEN NoLoc
      ELSE LET lo == CHOOSE i \in starts : \A j \in starts : i <= j
           IN  [found |-> TRUE, lo |-> lo, hi |-> MatchFrom(prog, d, 1, lo)]

\* bytes.Index(d, sep), sep non-empty
BytesIndex(d, sep) ==
  LET at == {i \in 0..(Len(d) - Len(sep)) : SubSeq(d, i + 1, i + Len(sep)) = sep}
  IN  IF at = {} THEN -1 ELSE CHOOSE i \in at : \A j \in at : i <= j

\* bytes.TrimSuffix(d, suffix)
BytesTrimSuffix(d, suffix) ==
  IF Len(d) >= Len(suffix) /\ Drop(d, Len(d) - Len(suffix)) = suffix
  THEN Take(d, Len(d) - Len(suffix)) ELSE d

(***************************************************************************)
(* The split functions.  A result is (advance, token, err).                *)
(***************************************************************************)
Result(advance, token, err) ==
  [called |-> TRUE, advance |-> advance, token |-> token, err |-> err]

NotCalled == [called |-> FALSE, advance |-> 0, token |-> NilTok, err |-> "nil"]

MoreData == Result(0, NilTok, "nil")

LineStartSplitFunc(re, flushAtEOF, trimFunc, d, eof) ==
  LET firstLoc == FindIndex(re, d)
  IN  IF ~firstLoc.found
      THEN IF Len(d) # 0 /\ eof /\ flushAtEOF
           THEN Result(Len(d), ApplyTrim(trimFunc, d), "nil")
           ELSE MoreData
      ELSE LET firstMatchStart == firstLoc.lo
               firstMatchEnd == firstLoc.hi
               prefix == ApplyTrim(trimFunc, Take(d, firstMatchStart))
           IN  IF firstMatchStart # 0 /\ ~prefix.isNil
               THEN Result(firstMatchStart, prefix, "nil")
               ELSE IF firstMatchEnd = Len(d) THEN MoreData
               ELSE IF eof /\ flushAtEOF
               THEN Result(Len(d), ApplyTrim(trimFunc, d), "nil")
               ELSE LET secondLocOfset == firstMatchEnd + 1
                        secondLoc == FindIndex(re, Drop(d, secondLocOfset))
                    IN  IF ~secondLoc.found THEN MoreData
                        ELSE LET secondMatchStart == secondLoc.lo + secondLocOfset
                             IN  Result(secondMatchStart,
                                        ApplyTrim(trimFunc,
                                          SubSeq(d, firstMatchStart + 1, secondMatchStart)),
                                        "nil")

\* LineEndSplitFunc with the token cut before the match instead of after it
LineEndSplitFuncBeforeMatch(re, flushAtEOF, trimFunc, d, eof) ==
  LET loc == FindIndex(re, d)
  IN  IF ~loc.found
      THEN IF Len(d) # 0 /\ eof /\ flushAtEOF
           THEN Result(Len(d), ApplyTrim(trimFunc, d), "nil")
           ELSE MoreData
      ELSE IF loc.hi = Len(d) - 1 /\ ~eof THEN MoreData
      ELSE Result(loc.hi, ApplyTrim(trimFunc, Take(d, loc.lo)), "nil")

\* LineEndSplitFunc waiting when the match ends at the end of the buffer
LineEndSplitFuncAtEnd(re, flushAtEOF, trimFunc, d, eof) ==
  LET loc == FindIndex(re, d)
  IN  IF ~loc.found
      THEN IF Len(d) # 0 /\ eof /\ flushAtEOF
           THEN Result(Len(d), ApplyTrim(trimFunc, d), "nil")
           ELSE MoreData
      ELSE IF loc.hi = Len(d) /\ ~eof THEN MoreData
      ELSE Result(loc.hi, ApplyTrim(trimFunc, Take(d, loc.hi)), "nil")

\* LineEndSplitFunc advancing to the start of the match only
LineEndSplitFuncToMatchStart(re, flushAtEOF, trimFunc, d, eof) ==
  LET loc == FindIndex(re, d)
  IN  IF ~loc.found
      THEN IF Len(d) # 0 /\ eof /\ flushAtEOF
           THEN Result(Len(d), ApplyTrim(trimFunc, d), "nil")
           ELSE MoreData
      ELSE IF loc.hi = Len(d) - 1 /\ ~eof THEN MoreData
      ELSE Result(loc.lo, ApplyTrim(trimFunc, Take(d, loc.hi)), "nil")

LineEndSplitFunc(re, flushAtEOF, trimFunc, d, eof) ==
  LET loc == FindIndex(re, d)
  IN  IF ~loc.found
      THEN IF Len(d) # 0 /\ eof /\ flushAtEOF
           THEN Result(Len(d), ApplyTrim(trimFunc, d), "nil")
           ELSE MoreData
      ELSE IF loc.hi = Len(d) - 1 /\ ~eof THEN MoreData
      ELSE Result(loc.hi, ApplyTrim(trimFunc, Take(d, loc.hi)), "nil")

\* NewlineSplitFunc flushing without waiting for the end of the stream
NewlineSplitFuncEarlyFlush(newline, carriageReturn, flushAtEOF, trimFunc, d, eof) ==
  IF eof /\ Len(d) = 0 THEN MoreData
  ELSE LET i == BytesIndex(d, newline)
       IN  IF i >= 0
           THEN Result(i + Len(newline),
                       ApplyTrim(trimFunc, BytesTrimSuffix(Take(d, i), carriageReturn)),
                       "nil")
           ELSE IF flushAtEOF /\ Len(d) # 0
           THEN Result(Len(d), ApplyTrim(trimFunc, d), "nil")
           ELSE MoreData

\* NewlineSplitFunc leaving the carriage return on the token
NewlineSplitFuncKeepCR(newline, carriageReturn, flushAtEOF, trimFunc, d, eof) ==
  IF eof /\ Len(d) = 0 THEN MoreData
  ELSE LET i == BytesIndex(d, newline)
       IN  IF i >= 0
           THEN Result(i + Len(newline), ApplyTrim(trimFunc, Take(d, i)), "nil")
           ELSE IF eof /\ flushAtEOF
           THEN Result(Len(d), ApplyTrim(trimFunc, d), "nil")
           ELSE MoreData

NewlineSplitFunc(newline, carriageReturn, flushAtEOF, trimFunc, d, eof) ==
  IF eof /\ Len(d) = 0 THEN MoreData
  ELSE LET i == BytesIndex(d, newline)
       IN  IF i >= 0
           THEN Result(i + Len(newline),
                       ApplyTrim(trimFunc, BytesTrimSuffix(Take(d, i), carriageReturn)),
                       "nil")
           ELSE IF eof /\ flushAtEOF
           THEN Result(Len(d), ApplyTrim(trimFunc, d), "nil")
           ELSE MoreData

\* NoSplitFunc emitting only once the buffer exceeds maxLogSize
NoSplitFuncExceeds(maxLogSize, d, eof) ==
  IF Len(d) > maxLogSize THEN Result(maxLogSize, Tok(Take(d, maxLogSize)), "nil")
  ELSE IF ~eof THEN MoreData
  ELSE IF Len(d) = 0 THEN MoreData
  ELSE Result(Len(d), Tok(d), "nil")

NoSplitFunc(maxLogSize, d, eof) ==
  IF Len(d) >= maxLogSize THEN Result(maxLogSize, Tok(Take(d, maxLogSize)), "nil")
  ELSE IF ~eof THEN MoreData
  ELSE IF Len(d) = 0 THEN MoreData
  ELSE Result(Len(d), Tok(d), "nil")

(***************************************************************************)
(* Encodings: decode.LookupEncoding and the encoded delimiters.            *)
(***************************************************************************)
EncodingNames == {"nop", "utf-8", "utf-16le", "bogus"}

\* decode.LookupEncoding(name): [ok, enc]
LookupEncoding(name) ==
  CASE name = "nop" -> [ok |-> TRUE, enc |-> "Nop"]
    [] name = "utf-8" -> [ok |-> TRUE, enc |-> "UTF8"]
    [] name = "utf-16le" -> [ok |-> TRUE, enc |-> "UTF16LE"]
    [] OTHER -> [ok |-> FALSE, enc |-> "none"]

\* enc.NewEncoder().Transform of one ASCII character
Encode(enc, c) == IF enc = "UTF16LE" THEN <<c, "NUL">> ELSE <<c>>

encodedNewline(enc) == Encode(enc, "\n")

encodedCarriageReturn(enc) == Encode(enc, "\r")

(***************************************************************************)
(* MultilineConfig.getSplitFunc and SplitterConfig.Build.                  *)
(***************************************************************************)
SplitFunc(kind, err) ==
  [built |-> TRUE, kind |-> kind, err |-> err, re |-> <<>>,
   newline |-> <<>>, carriageReturn |-> <<>>, flushAtEOF |-> FALSE,
   trimFunc |-> "noTrim", maxLogSize |-> 0, wrapped |-> FALSE]

NotBuilt == [SplitFunc("nil", "") EXCEPT !.built = FALSE]

BuildError(err) == SplitFunc("nil", err)

\* getSplitFunc building the start-pattern strategy from the end pattern
getSplitFuncEndAsStart(c, enc, flushAtEOF, maxLogSize, preserveLeadingWhitespaces, preserveTrailingWhitespaces) ==
  LET endPattern == c.LineEndPattern
      startPattern == c.LineStartPattern
      trim == getTrimFunc(preserveLeadingWhitespaces, preserveTrailingWhitespaces)
  IN  CASE endPattern # <<>> /\ startPattern # <<>> ->
             BuildError("only one of line_start_pattern or line_end_pattern can be set")
        [] enc = "Nop" /\ (endPattern # <<>> \/ startPattern # <<>>) ->
             BuildError("line_start_pattern or line_end_pattern should not be set when using nop encoding")
        [] enc = "Nop" ->
             [SplitFunc("NoSplit", "") EXCEPT !.maxLogSize = maxLogSize]
        [] endPattern = <<>> /\ startPattern = <<>> ->
             [SplitFunc("Newline", "") EXCEPT
                !.newline = encodedNewline(enc),
                !.carriageReturn = encodedCarriageReturn(enc),
                !.flushAtEOF = flushAtEOF, !.trimFunc = trim]
        [] endPattern # <<>> ->
             LET re == Compile(endPattern)
             IN  IF ~re.ok THEN BuildError("compile line end regex")
                 ELSE [SplitFunc("LineStart", "") EXCEPT
                         !.re = re.prog, !.flushAtEOF = flushAtEOF, !.trimFunc = trim]
        [] startPattern # <<>> ->
             LET re == Compile(startPattern)
             IN  IF ~re.ok THEN BuildError("compile line start regex")
                 ELSE [SplitFunc("LineStart", "") EXCEPT
                         !.re = re.prog, !.flushAtEOF = flushAtEOF, !.trimFunc = trim]
        [] OTHER -> BuildError("unreachable")

getSplitFunc(c, enc, flushAtEOF, maxLogSize, preserveLeadingWhitespaces, preserveTrailingWhitespaces) ==
  LET endPattern == c.LineEndPattern
      startPattern == c.LineStartPattern
      trim == getTrimFunc(preserveLeadingWhitespaces, preserveTrailingWhitespaces)
  IN  CASE endPattern # <<>> /\ startPattern # <<>> ->
             BuildError("only one of line_start_pattern or line_end_pattern can be set")
        [] enc = "Nop" /\ (endPattern # <<>> \/ startPattern # <<>>) ->
             BuildError("line_start_pattern or line_end_pattern should not be set when using nop encoding")
        [] enc = "Nop" ->
             [SplitFunc("NoSplit", "") EXCEPT !.maxLogSize = maxLogSize]
        [] endPattern = <<>> /\ startPattern = <<>> ->
             [SplitFunc("Newline", "") EXCEPT
                !.newline = encodedNewline(enc),
                !.carriageReturn = encodedCarriageReturn(enc),
                !.flushAtEOF = flushAtEOF, !.trimFunc = trim]
        [] endPattern # <<>> ->
             LET re == Compile(endPattern)
             IN  IF ~re.ok THEN BuildError("compile line end regex")
                 ELSE [SplitFunc("LineEnd", "") EXCEPT
                         !.re = re.prog, !.flushAtEOF = flushAtEOF, !.trimFunc = trim]
        [] startPattern # <<>> ->
             LET re == Compile(startPattern)
             IN  IF ~re.ok THEN BuildError("compile line start regex")
                 ELSE [SplitFunc("LineStart", "") EXCEPT
                         !.re = re.prog, !.flushAtEOF = flushAtEOF, !.trimFunc = trim]
        [] OTHER -> BuildError("unreachable")

\* MultilineConfig.Build
MultilineBuild(c, enc, flushAtEOF, preserveLeadingWhitespaces, preserveTrailingWhitespaces, maxLogSize) ==
  getSplitFunc(c, enc, flushAtEOF, maxLogSize,
               preserveLeadingWhitespaces, preserveTrailingWhitespaces)

\* FlusherConfig.Wrap: the strategy inside the idle-flush wrapper
FlusherWrap(splitFunc) == [splitFunc EXCEPT !.wrapped = TRUE]

\* SplitterConfig.Build wrapping the result without looking at the error
SplitterBuildUnchecked(c, flushAtEOF, maxLogSize) ==
  LET e == LookupEncoding(c.Encoding)
  IN  IF ~e.ok THEN BuildError("unsupported encoding")
      ELSE FlusherWrap(MultilineBuild(c.Multiline, e.enc, flushAtEOF,
                                      c.PreserveLeadingWhitespaces,
                                      c.PreserveTrailingWhitespaces, maxLogSize))

\* SplitterConfig.Build
SplitterBuild(c, flushAtEOF, maxLogSize) ==
  LET e == LookupEncoding(c.Encoding)
  IN  IF ~e.ok THEN BuildError("unsupported encoding")
      ELSE LET splitFunc == MultilineBuild(c.Multiline, e.enc, flushAtEOF,
                                           c.PreserveLeadingWhitespaces,
                                           c.PreserveTrailingWhitespaces, maxLogSize)
           IN  IF splitFunc.err # "" THEN splitFunc
               ELSE FlusherWrap(splitFunc)

\* a call of the built split function
Apply(sf, d, eof) ==
  CASE sf.kind = "NoSplit" -> NoSplitFunc(sf.maxLogSize, d, eof)
    [] sf.kind = "Newline" ->
         NewlineSplitFunc(sf.newline, sf.carriageReturn, sf.flushAtEOF, sf.trimFunc, d, eof)
    [] sf.kind = "LineStart" ->
         LineStartSplitFunc(sf.re, sf.flushAtEOF, sf.trimFunc, d, eof)
    [] sf.kind = "LineEnd" ->
         LineEndSplitFunc(sf.re, sf.flushAtEOF, sf.trimFunc, d, eof)

(***************************************************************************)
(* Inputs.                                                                 *)
(***************************************************************************)
PatternSources == {<<>>, <<"x">>, <<"x", "*">>, <<"^">>, <<"$">>, <<"(">>}

Config(encoding, startPattern, endPattern, pl, pt, flushAtEOF, maxLogSize) ==
  [sc |-> [Encoding |-> encoding,
           Multiline |-> [LineStartPattern |-> startPattern,
                          LineEndPattern |-> endPattern],
           PreserveLeadingWhitespaces |-> pl,
           PreserveTrailingWhitespaces |-> pt],
   flushAtEOF |-> flushAtEOF, maxLogSize |-> maxLogSize]

Configs ==
  {Config(e, sp, ep, pl, pt, f, m) :
     e \in EncodingNames, sp \in PatternSources, ep \in PatternSources,
     pl \in BOOLEAN, pt \in BOOLEAN, f \in BOOLEAN, m \in 1..MaxLogSize}

ExampleBuffers ==
  {<<" ", " ", "x", " ", " ", "\n">>,
   <<"\t", "x", "\t", "\n">>,
   <<"\t", " ", "\r", "\n">>}

Buffers == SeqsUpTo(Alphabet, MaxLen) \cup ExampleBuffers

(***************************************************************************)
(* The stream reader: a loop that calls the split function on the          *)
(* unconsumed bytes it holds, reads more on "need more data", and passes   *)
(* atEOF once the source is exhausted (bufio.Scanner's loop).  Reader 1 is *)
(* fed in chunks of 1..MaxChunk bytes, reader 2 gets the stream at once.   *)
(***************************************************************************)
Readers == {1, 2}

NewReader ==
  [pos |-> 0, avail |-> 0, eof |-> FALSE, need |-> FALSE, done |-> FALSE,
   tokens |-> <<>>, lastData |-> <<>>, lastEOF |-> FALSE, last |-> NotCalled]

Idle == [r \in Readers |-> NewReader]

ChunkSizes(r) == IF r = 1 THEN 1..MaxChunk ELSE {Len(stream)}

Turn(r) == r = 1 \/ rd[1].done

(***************************************************************************)
(* Actions.                                                                *)
(***************************************************************************)
Build ==
  /\ ~split.built
  /\ split' = SplitterBuild(cfg.sc, cfg.flushAtEOF, cfg.maxLogSize)
  /\ UNCHANGED <<cfg, data, atEOF, ret, stream, rd>>

\* one call next(d, eof) of the built strategy
Call ==
  /\ split.built /\ split.err = ""
  /\ ~ret.called
  /\ \E d \in Buffers, eof \in BOOLEAN :
       /\ data' = d
       /\ atEOF' = eof
       /\ ret' = Apply(split, d, eof)
  /\ UNCHANGED <<cfg, split, stream, rd>>

\* the reader calls the split function on its buffer
Scan(r) ==
  /\ split.built /\ split.err = ""
  /\ Turn(r)
  /\ ~rd[r].done /\ ~rd[r].need
  /\ rd[r].avail > rd[r].pos \/ rd[r].eof
  /\ LET me == rd[r]
         buf == SubSeq(stream, me.pos + 1, me.avail)
         res == Apply(split, buf, me.eof)
         seen == [me EXCEPT !.lastData = buf, !.lastEOF = me.eof, !.last = res]
     IN  rd' = [rd EXCEPT ![r] =
           IF ~res.token.isNil
           THEN [seen EXCEPT !.pos = me.pos + res.advance,
                             !.tokens = Append(me.tokens,
                                [bytes |-> res.token.bytes, advance |-> res.advance,
                                 atEOF |-> me.eof])]
           ELSE IF res.advance > 0
           THEN [seen EXCEPT !.pos = me.pos + res.advance]
           ELSE IF me.eof THEN [seen EXCEPT !.done = TRUE]
           ELSE [seen EXCEPT !.need = TRUE]]
  /\ UNCHANGED <<cfg, split, data, atEOF, ret, stream>>

\* the reader takes the next chunk from the source, or learns it has ended
Read(r) ==
  /\ split.built /\ split.err = ""
  /\ Turn(r)
  /\ ~rd[r].done /\ ~rd[r].eof
  /\ rd[r].need \/ rd[r].avail = rd[r].pos
  /\ \E n \in ChunkSizes(r) :
       rd' = [rd EXCEPT ![r] =
         IF rd[r].avail < Len(stream)
         THEN [rd[r] EXCEPT !.avail = Min(rd[r].avail + n, Len(stream)), !.need = FALSE]
         ELSE [rd[r] EXCEPT !.eof = TRUE, !.need = FALSE]]
  /\ UNCHANGED <<cfg, split, data, atEOF, ret, stream>>

(***************************************************************************)
(* Spec: a configuration is built and the strategy is called once on an    *)
(* arbitrary buffer.                                                       *)
(***************************************************************************)
Init ==
  /\ cfg \in Configs
  /\ split = NotBuilt
  /\ data = <<>>
  /\ atEOF = FALSE
  /\ ret = NotCalled
  /\ stream = <<>>
  /\ rd = Idle

Next == Build \/ Call

Spec == Init /\ [][Next]_vars

(***************************************************************************)
(* SpecReader: a configuration is built and the two readers run the built  *)
(* strategy over a stream, reader 1 first.                                 *)
(***************************************************************************)
StartPattern == <<"S", "T", "A", "R", "T">>

LineABStream == <<"l", "i", "n", "e", "A", ";", "l", "i", "n", "e", "B", ";">>

StartABStream ==
  <<"S", "T", "A", "R", "T", " ", "a", "\n", "m", "i", "d", "d", "l", "e", "\n",
    "S", "T", "A", "R", "T", " ", "b", "\n">>

StartBareStream ==
  <<"S", "T", "A", "R", "T", " ", "a", "\n", "S", "T", "A", "R", "T">>

ReaderConfigs ==
  {Config(e, <<>>, <<>>, pl, pt, f, 1) :
     e \in {"utf-8", "utf-16le"}, pl \in BOOLEAN, pt \in BOOLEAN, f \in BOOLEAN}
  \cup {Config("utf-8", sp, <<>>, pl, pt, f, 1) :
          sp \in {<<"x">>, <<"x", "*">>, <<"^">>, <<"$">>},
          pl \in BOOLEAN, pt \in BOOLEAN, f \in BOOLEAN}
  \cup {Config("utf-8", <<>>, <<"x">>, pl, pt, f, 1) :
          pl \in BOOLEAN, pt \in BOOLEAN, f \in BOOLEAN}
  \cup {Config("nop", <<>>, <<>>, FALSE, FALSE, f, m) :
          f \in BOOLEAN, m \in 1..MaxLogSize}

Streams == SeqsUpTo(Alphabet, MaxStreamLen)

ExampleInputs ==
  {<<Config("utf-8", <<>>, <<";">>, FALSE, FALSE, f, 1), LineABStream>> : f \in BOOLEAN}
  \cup {<<Config("utf-8", StartPattern, <<>>, FALSE, FALSE, TRUE, 1), s>> :
          s \in {StartABStream, StartBareStream}}

ReaderInputs == (ReaderConfigs \X Streams) \cup ExampleInputs

InitReader ==
  /\ \E in \in ReaderInputs : cfg = in[1] /\ stream = in[2]
  /\ split = NotBuilt
  /\ data = <<>>
  /\ atEOF = FALSE
  /\ ret = NotCalled
  /\ rd = Idle

NextReader == Build \/ (\E r \in Readers : Scan(r)) \/ (\E r \in Readers : Read(r))

SpecReader == InitReader /\ [][NextReader]_vars

(***************************************************************************)
(* Properties of one call of a built strategy (Spec).                      *)
(***************************************************************************)
Called == split.built /\ ret.called

sc == cfg.sc

NeedMoreData == ret.advance = 0 /\ ret.token.isNil /\ ret.err = "nil"

\* C1: a Newline, Pattern-Start or Pattern-End strategy built with
\* flush-on-end never answers a call with a non-empty buffer and atEOF = TRUE
\* by the need-more-data result; every such call emits a token.
C1_FlushAtEndEmits ==
  (/\ Called
   /\ split.kind \in {"Newline", "LineStart", "LineEnd"}
   /\ split.flushAtEOF /\ atEOF /\ data # <<>>)
  => (~NeedMoreData /\ ~ret.token.isNil)

\* C2: whenever a call of any strategy returns a token, the returned advance
\* is strictly greater than 0.
C2_TokenAdvances ==
  (Called /\ ~ret.token.isNil) => ret.advance > 0

\* C7: the result of the No-Split strategy as a function of the buffer length
\* and atEOF: a full buffer emits its first maxLogSize bytes untrimmed, a short
\* buffer waits before the end and is emitted whole at the end, an empty buffer
\* at the end yields nothing.
C7_NoSplitTable ==
  (Called /\ split.kind = "NoSplit") =>
    LET m == cfg.maxLogSize
    IN  /\ ret.err = "nil"
        /\ Len(data) >= m =>
             ret.advance = m /\ ret.token = Tok(SubSeq(data, 1, m))
        /\ (Len(data) < m /\ ~atEOF) => NeedMoreData
        /\ (Len(data) < m /\ atEOF /\ Len(data) > 0) =>
             ret.advance = Len(data) /\ ret.token = Tok(data)
        /\ (Len(data) < m /\ atEOF /\ Len(data) = 0) =>
             ret.token.isNil /\ ret.err = "nil" /\ ret.advance = 0

C7_Witness ==
  /\ Called /\ split.kind = "NoSplit"
  /\ Len(data) = cfg.maxLogSize /\ ~atEOF
  /\ ret.advance = cfg.maxLogSize /\ ~ret.token.isNil

BothPatterns ==
  sc.Multiline.LineStartPattern # <<>> /\ sc.Multiline.LineEndPattern # <<>>

OnePattern ==
  (sc.Multiline.LineStartPattern # <<>>) # (sc.Multiline.LineEndPattern # <<>>)

NoPattern ==
  sc.Multiline.LineStartPattern = <<>> /\ sc.Multiline.LineEndPattern = <<>>

\* C8: building fails with a configuration error and yields no split function
\* when both patterns are set (whatever the encoding) and when one pattern is
\* set with the nop encoding; no call of a strategy is then possible.
C8_InvalidConfigFails ==
  (split.built /\ (BothPatterns \/ (OnePattern /\ sc.Encoding = "nop"))) =>
    /\ split.kind = "nil" /\ split.err # "" /\ ~split.wrapped
    /\ ~ret.called
    /\ (BothPatterns /\ sc.Encoding # "bogus") =>
         split.err = "only one of line_start_pattern or line_end_pattern can be set"
    /\ (OnePattern /\ sc.Encoding = "nop") =>
         split.err = "line_start_pattern or line_end_pattern should not be set when using nop encoding"

C8_Witness ==
  /\ split.built /\ OnePattern /\ sc.Encoding = "nop"
  /\ split.kind = "nil" /\ split.err # ""

PatternsCompile ==
  /\ Compile(sc.Multiline.LineStartPattern).ok
  /\ Compile(sc.Multiline.LineEndPattern).ok

TextEncoding == sc.Encoding \in {"utf-8", "utf-16le"}

\* C9: over valid configurations the dispatch is total: nop without patterns
\* builds No-Split, a text encoding builds Newline without patterns,
\* Pattern-End with only the end pattern, Pattern-Start with only the start
\* pattern; the "unreachable" branch is never taken.
C9_DispatchTotal ==
  split.built =>
    /\ split.err # "unreachable"
    /\ PatternsCompile =>
         /\ (sc.Encoding = "nop" /\ NoPattern) =>
              split.kind = "NoSplit" /\ split.err = ""
         /\ (TextEncoding /\ NoPattern) =>
              split.kind = "Newline" /\ split.err = ""
         /\ (TextEncoding /\ OnePattern /\ sc.Multiline.LineEndPattern # <<>>) =>
              split.kind = "LineEnd" /\ split.err = ""
                /\ split.re = Compile(sc.Multiline.LineEndPattern).prog
         /\ (TextEncoding /\ OnePattern /\ sc.Multiline.LineStartPattern # <<>>) =>
              split.kind = "LineStart" /\ split.err = ""
                /\ split.re = Compile(sc.Multiline.LineStartPattern).prog

C9_Witness ==
  /\ split.built /\ TextEncoding /\ OnePattern
  /\ sc.Multiline.LineStartPattern = <<"x">>
  /\ split.kind = "LineStart"

AllWhite(s) == \A k \in 1..Len(s) : s[k] \in {"\r", "\n", "\t", " "}

\* t is raw with its leading run of white space removed unless pl, and its
\* trailing run removed unless pt
Stripped(pl, pt, raw, t) ==
  \E a \in 0..Len(raw), b \in 0..Len(raw) :
    /\ a <= b
    /\ t = SubSeq(raw, a + 1, b)
    /\ pl => a = 0
    /\ pt => b = Len(raw)
    /\ ~pl => AllWhite(SubSeq(raw, 1, a)) /\ (t = <<>> \/ ~AllWhite(<<t[1]>>))
    /\ ~pt => AllWhite(SubSeq(raw, b + 1, Len(raw)))
                /\ (t = <<>> \/ ~AllWhite(<<t[Len(t)]>>))

PaddedLine == <<" ", " ", "x", " ", " ", "\n">>

\* C10: the trim function selected for (preserveLeading, preserveTrailing) is
\* the identity for (TRUE, TRUE), strips the trailing run of white space for
\* (TRUE, FALSE), the leading run for (FALSE, TRUE) and both for
\* (FALSE, FALSE); the Newline strategy on two spaces, x, two spaces, newline
\* yields "  x  ", "  x", "x  ", "x" for these four.
C10_PreservationMatrix ==
  (Called /\ split.kind = "Newline" /\ ~ret.token.isNil) =>
    LET pl == sc.PreserveLeadingWhitespaces
        pt == sc.PreserveTrailingWhitespaces
        i == BytesIndex(data, split.newline)
        raw == IF i >= 0
               THEN BytesTrimSuffix(SubSeq(data, 1, i), split.carriageReturn)
               ELSE data
    IN  /\ Stripped(pl, pt, raw, ret.token.bytes)
        /\ (data = PaddedLine /\ sc.Encoding = "utf-8") =>
             /\ ret.advance = 6
             /\ ret.token.bytes =
                  CASE pl /\ pt -> <<" ", " ", "x", " ", " ">>
                    [] pl /\ ~pt -> <<" ", " ", "x">>
                    [] ~pl /\ pt -> <<"x", " ", " ">>
                    [] OTHER -> <<"x">>

C10_Witness ==
  /\ Called /\ split.kind = "Newline" /\ sc.Encoding = "utf-8"
  /\ data = PaddedLine
  /\ sc.PreserveLeadingWhitespaces /\ ~sc.PreserveTrailingWhitespaces
  /\ ret.token.bytes = <<" ", " ", "x">>

(***************************************************************************)
(* Properties of the reader loop (SpecReader).                             *)
(***************************************************************************)
Running == split.built /\ split.err = ""

TokenBytes(r) == [k \in 1..Len(rd[r].tokens) |-> rd[r].tokens[k].bytes]

TokenAdvances(r) == [k \in 1..Len(rd[r].tokens) |-> rd[r].tokens[k].advance]

TokenAtEnd(r) == [k \in 1..Len(rd[r].tokens) |-> rd[r].tokens[k].atEOF]

\* C3: chunk-size independence of the Newline strategy: the reader fed the
\* stream in small chunks and the reader given it at once emit the same
\* sequence of tokens, for every flush-on-end setting and trim policy.
C3_ChunkIndependence ==
  (Running /\ split.kind = "Newline" /\ rd[1].done /\ rd[2].done) =>
    TokenBytes(1) = TokenBytes(2)

C3_Witness ==
  /\ Running /\ split.kind = "Newline" /\ rd[1].done /\ rd[2].done
  /\ Len(stream) >= 3
  /\ Len(rd[1].tokens) >= 2
  /\ rd[2].tokens[1].advance >= 2

\* the records of a stream in which every record is followed by nl;
\* <<"malformed">> marks a stream with a trailing partial record
RECURSIVE RecordsOf(_, _, _)
RecordsOf(s, nl, cur) ==
  IF s = <<>> THEN (IF cur = <<>> THEN <<>> ELSE <<"malformed">>)
  ELSE IF Len(s) >= Len(nl) /\ SubSeq(s, 1, Len(nl)) = nl
  THEN LET rest == RecordsOf(SubSeq(s, Len(nl) + 1, Len(s)), nl, <<>>)
       IN  IF rest = <<"malformed">> THEN rest ELSE <<cur>> \o rest
  ELSE RecordsOf(Tail(s), nl, Append(cur, Head(s)))

\* C4: newline round trip: over a stream of N newline-terminated records the
\* reader emits exactly N tokens in order, the i-th being record i without a
\* trailing carriage return and trimmed; the advances sum to the stream
\* length and the last call, on an empty buffer at the end, returns nothing.
C4_NewlineRoundTrip ==
  \A r \in Readers :
    (Running /\ split.kind = "Newline" /\ rd[r].done
       /\ RecordsOf(stream, split.newline, <<>>) # <<"malformed">>) =>
      LET recs == RecordsOf(stream, split.newline, <<>>)
      IN  /\ Len(rd[r].tokens) = Len(recs)
          /\ \A k \in 1..Len(recs) :
               rd[r].tokens[k].bytes =
                 ApplyTrim(split.trimFunc,
                           BytesTrimSuffix(recs[k], split.carriageReturn)).bytes
          /\ rd[r].pos = Len(stream)
          /\ rd[r].lastData = <<>> /\ rd[r].lastEOF
          /\ rd[r].last = MoreData

C4_Witness ==
  /\ Running /\ split.kind = "Newline" /\ rd[1].done
  /\ Len(RecordsOf(stream, split.newline, <<>>)) = 2
  /\ RecordsOf(stream, split.newline, <<>>) # <<"malformed">>
  /\ Len(rd[1].tokens) = 2
  /\ rd[1].pos = Len(stream)

LineABRun ==
  /\ Running /\ split.kind = "LineEnd"
  /\ sc.Multiline.LineEndPattern = <<";">>
  /\ split.trimFunc = "trimWhitespacesFunc"
  /\ stream = LineABStream

\* C5 as stated: over lineA;lineB; with end pattern ; the reader emits lineA
\* then lineB, the terminator being consumed but not part of the token.
C5_TerminatorExcluded ==
  \A r \in Readers :
    (LineABRun /\ rd[r].done) =>
      /\ TokenBytes(r) = <<<<"l", "i", "n", "e", "A">>, <<"l", "i", "n", "e", "B">>>>
      /\ TokenAdvances(r) = <<6, 6>>

\* C5 amended: over lineA;lineB; with end pattern ; the reader emits lineA;
\* then lineB;, each with advance 6: the matched terminator is the end of the
\* token.
C5_TerminatorIncluded ==
  \A r \in Readers :
    (LineABRun /\ rd[r].done) =>
      /\ TokenBytes(r) = <<<<"l", "i", "n", "e", "A", ";">>,
                           <<"l", "i", "n", "e", "B", ";">>>>
      /\ TokenAdvances(r) = <<6, 6>>
      /\ rd[r].pos = Len(stream)

C5_Witness ==
  /\ LineABRun /\ rd[1].done /\ rd[2].done
  /\ Len(rd[1].tokens) = 2 /\ Len(rd[2].tokens) = 2

\* the offsets of the successive matches of re in s, from offset off on
RECURSIVE MatchStarts(_, _, _)
MatchStarts(re, s, off) ==
  IF off > Len(s) THEN <<>>
  ELSE LET loc == FindIndex(re, SubSeq(s, off + 1, Len(s)))
       IN  IF ~loc.found THEN <<>>
           ELSE <<off + loc.lo>>
                  \o MatchStarts(re, s, off + (IF loc.hi > loc.lo THEN loc.hi ELSE loc.lo + 1))

\* the k-th record of a stream whose records start at the offsets starts
RecordAt(s, starts, k) ==
  SubSeq(s, starts[k] + 1, IF k < Len(starts) THEN starts[k + 1] ELSE Len(s))

\* C6: Pattern-Start with flush-on-end and trimming of both sides, over a
\* stream whose records each begin with a match of the start pattern: the
\* reader emits one token per record, in order, each running from a match up
\* to the next match, trimmed; all but the last before the end of the stream,
\* the last by the flush at the end.  For START a\nmiddle\nSTART b\n the
\* tokens are START a\nmiddle and START b.
C6_OneTokenPerRecord ==
  \A r \in Readers :
    (Running /\ split.kind = "LineStart" /\ split.flushAtEOF
       /\ split.trimFunc = "trimWhitespacesFunc" /\ rd[r].done
       /\ MatchStarts(split.re, stream, 0) # <<>>
       /\ MatchStarts(split.re, stream, 0)[1] = 0) =>
      LET starts == MatchStarts(split.re, stream, 0)
      IN  /\ Len(rd[r].tokens) = Len(starts)
          /\ \A k \in 1..Len(starts) :
               /\ rd[r].tokens[k].bytes =
                    trimWhitespacesFunc(RecordAt(stream, starts, k)).bytes
               /\ rd[r].tokens[k].atEOF = (k = Len(starts))
          /\ stream = StartABStream =>
               TokenBytes(r) =
                 <<<<"S", "T", "A", "R", "T", " ", "a", "\n", "m", "i", "d", "d", "l", "e">>,
                   <<"S", "T", "A", "R", "T", " ", "b">>>>

(***************************************************************************)
(* Further properties of one call (Spec).                                  *)
(***************************************************************************)
Trimmed(b) == ApplyTrim(split.trimFunc, b)

\* C11: idempotence of trimming: for the trim function selected by the
\* configuration and every byte sequence b, trim(trim(b)) = trim(b); so for the
\* buffer of a call and for the token the call emits.
C11_TrimIdempotent ==
  (Called /\ split.kind \in {"Newline", "LineStart", "LineEnd"}) =>
    /\ Trimmed(Trimmed(data).bytes) = Trimmed(data)
    /\ ~ret.token.isNil => Trimmed(ret.token.bytes) = ret.token

C11_Witness ==
  /\ Called /\ split.kind = "Newline" /\ split.trimFunc = "trimWhitespacesFunc"
  /\ ~ret.token.isNil
  /\ Trimmed(data).bytes # data
  /\ ret.token.bytes # <<>>

FirstLoc == FindIndex(split.re, data)

PrefixCase == Called /\ split.kind = "LineStart" /\ FirstLoc.found /\ FirstLoc.lo > 0

\* C12: Pattern-Start with the first match at an offset m > 0: the prefix
\* buffer[0:m] is emitted as its own token with advance m only if the trimmed
\* prefix is non-empty; a prefix that trims to empty yields no token of its
\* own and the call falls through to the later steps.
C12_EmptyPrefixFallsThrough ==
  PrefixCase =>
    LET m == FirstLoc.lo
        prefix == Trimmed(SubSeq(data, 1, m))
    IN  /\ prefix.bytes # <<>> => (ret.advance = m /\ ret.token = prefix)
        /\ prefix.bytes = <<>> =>
             /\ ret.advance # m
             /\ FirstLoc.hi = Len(data) => NeedMoreData

MatchCase == Called /\ split.kind = "LineEnd" /\ FirstLoc.found

\* C13: Pattern-End with a first match ending at offset e: the call requests
\* more data exactly when e = len(buffer) - 1 and atEOF is false; in every
\* other case it emits trim(buffer[0:e]) with advance e, the token including
\* the bytes of the match.
C13_EndEdge ==
  MatchCase =>
    LET e == FirstLoc.hi
    IN  /\ NeedMoreData <=> (e = Len(data) - 1 /\ ~atEOF)
        /\ ~(e = Len(data) - 1 /\ ~atEOF) =>
             /\ ret.advance = e
             /\ ret.token = Trimmed(SubSeq(data, 1, e))
             /\ ret.err = "nil"

C13_Witness ==
  /\ MatchCase /\ ~atEOF
  /\ FirstLoc.hi = Len(data) - 1 /\ FirstLoc.hi > FirstLoc.lo
  /\ NeedMoreData

\* C15: every call of every strategy returns 0 <= advance <= len(buffer) and
\* no error, and an emitted token is the trim function applied to a contiguous
\* sub-range of buffer[0:advance].
C15_WithinBuffer ==
  (Called /\ split.err = "") =>
    /\ 0 <= ret.advance /\ ret.advance <= Len(data)
    /\ ret.err = "nil"
    /\ ~ret.token.isNil =>
         \E a \in 0..ret.advance, b \in 0..ret.advance :
           a <= b /\ ret.token = Trimmed(SubSeq(data, a + 1, b))

C15_Witness ==
  /\ Called /\ split.kind = "LineStart" /\ ~atEOF
  /\ FirstLoc.found /\ FirstLoc.lo = 0
  /\ ~ret.token.isNil /\ ret.advance = Len(data) /\ ret.advance >= 2

(***************************************************************************)
(* The hand-over between consecutive calls of the reader (SpecReader).     *)
(***************************************************************************)
LastLoc(r) == FindIndex(split.re, rd[r].lastData)

\* the last call of reader r emitted its token by the second-match step
BySecondMatch(r) ==
  /\ Running /\ split.kind = "LineStart"
  /\ rd[r].last.called /\ ~rd[r].last.token.isNil
  /\ LastLoc(r).found /\ LastLoc(r).lo = 0
  /\ LastLoc(r).hi < Len(rd[r].lastData)
  /\ ~(rd[r].lastEOF /\ split.flushAtEOF)

\* the offset j of the second match in the buffer of the last call
SecondStart(r) ==
  LET d == rd[r].lastData
      off == LastLoc(r).hi + 1
  IN  off + FindIndex(split.re, SubSeq(d, off + 1, Len(d))).lo

\* C14: a Pattern-Start call that emits by the second-match step returns
\* trim(buffer[0:j]) and advance j, and the next call, on buffer[j:] plus the
\* bytes that arrived since, finds its first match at offset 0, so that no
\* prefix token comes between two records.
C14_HandOver ==
  [][\A r \in Readers :
       BySecondMatch(r) =>
         LET d == rd[r].lastData
             j == SecondStart(r)
         IN  /\ rd[r].last.advance = j
             /\ rd[r].last.token = ApplyTrim(split.trimFunc, SubSeq(d, 1, j))
             /\ Scan(r) =>
                  /\ SubSeq(rd'[r].lastData, 1, Len(d) - j) = SubSeq(d, j + 1, Len(d))
                  /\ FindIndex(split.re, rd'[r].lastData).found
                  /\ FindIndex(split.re, rd'[r].lastData).lo = 0]_vars

====
